---- MODULE Spec2Model ----
(***************************************************************************)
(* Model of the marker-based code-region lifecycle of the function-run     *)
(* editor extension (src/src/extension.ts).                                *)
(*                                                                         *)
(* The document is a sequence of lines.  A line is a record                *)
(*   k   : "start" | "end" | "code" | "blank" | "decl"                     *)
(*   ind : number of leading whitespace characters                         *)
(*   tag : the function name on a marker or declaration line, the called   *)
(*         function on a code line (<<>> when there is none)               *)
(*   cm  : the line-comment prefixes after the indentation, outermost      *)
(*         first, each "// " (slashes and a space) or "//" (no space)      *)
(*   txt : the rest of the line (an opaque payload); "START" and "END" are *)
(*         the words of an untagged marker without its slashes             *)
(* Function names are sequences of characters, so that one name can be a   *)
(* proper prefix of another, as the marker regular expressions see it.     *)
(***************************************************************************)
EXTENDS Naturals, Sequences, FiniteSets, TLC

VARIABLES doc, dirty, processingFunctions, executedFunctions, commentedCode,
          inv, ret, cmds, fails, quokkaInstalled, apiKey, gens

vars == <<doc, dirty, processingFunctions, executedFunctions, commentedCode,
          inv, ret, cmds, fails, quokkaInstalled, apiKey, gens>>

(* ------------------------------ bounds -------------------------------- *)

\* commands the user issues in one behaviour
MaxCmds == 3
\* of these, the invocations of runFunction with regenerate set
MaxGenerates == 2
\* external steps (open, edit, save, Runner, input box, key store) that fail
\* in one behaviour; a secrets.get that throws ends like one that finds no
\* key and is not counted
MaxFails == 1
\* commands the user issues in one behaviour of the liveness specification
MaxFairCmds == 2
\* lines of a document text handed to the marker scans
MaxLines == 5
\* lines of a document text handed to the region edit
MaxEditLines == 4

(* ------------------------------ names --------------------------------- *)

F == <<"f">>
FG == <<"f", "g">>
Names == {F, FG}
NoName == <<>>

IsPrefix(a, b) == Len(a) <= Len(b) /\ SubSeq(b, 1, Len(a)) = a

(* ------------------------------ lines --------------------------------- *)

Line(k, ind, tag, cm, txt) ==
    [k |-> k, ind |-> ind, tag |-> tag, cm |-> cm, txt |-> txt]

NoPrefix == << >>
StartLine(ind, n) == Line("start", ind, n, NoPrefix, "")
EndLine(ind, n) == Line("end", ind, n, NoPrefix, "")
BlankLine(ind) == Line("blank", ind, NoName, NoPrefix, "")
DeclLine(ind, n) == Line("decl", ind, n, NoPrefix, "")
CallLine(n, txt) == Line("code", 0, n, NoPrefix, txt)
NoteLine == Line("code", 0, NoName, <<"// ">>, "note")
\* what is left of an END marker line behind a range that ended inside its tag
TailLine(ind) == Line("code", ind, NoName, NoPrefix, "tail")

\* line.includes('FUNCTION-RUN-GENERATED-CODE-START:') or ...-END:'
IncludesMarker(l) == l.k \in {"start", "end"} /\ l.tag # NoName
\* line.trimStart().startsWith('//')
StartsWithSlashes(l) == l.k \in {"start", "end"} \/ l.cm # NoPrefix
\* line.trim() === ''
IsBlank(l) == l.k = "blank"
\* the text holds a call `name(`
CallsFunction(l, n) == l.k \in {"code", "decl"} /\ l.tag = n

Min(S) == CHOOSE x \in S : \A y \in S : x <= y

NoRange == [s |-> 0, e |-> 0, cut |-> 0]

\* START:<n> followed by white space and a line break
StartsOf(text, n) ==
    {i \in 1..Len(text) : text[i].k = "start" /\ text[i].tag = n /\ i < Len(text)}
\* the text `// ...-END:<n>` occurs on line i (as a prefix of the END tag)
EndsOf(text, n, from) ==
    {i \in (from + 1)..Len(text) : text[i].k = "end" /\ text[i].tag # NoName
                                    /\ IsPrefix(n, text[i].tag)}

\* variant: the span runs to the last END marker that matches
getFunctionMarkerRangeLastEnd(text, n) ==
    LET ss == {s \in StartsOf(text, n) : EndsOf(text, n, s) # {}}
    IN  IF ss = {} THEN NoRange
        ELSE LET s == Min(ss)
                 e == CHOOSE x \in EndsOf(text, n, s) :
                          \A y \in EndsOf(text, n, s) : x >= y
             IN  [s |-> s, e |-> e, cut |-> Len(n)]

getFunctionMarkerRange(text, n) ==
    LET ss == {s \in StartsOf(text, n) : EndsOf(text, n, s) # {}}
    IN  IF ss = {} THEN NoRange
        ELSE LET s == Min(ss)
                 e == Min(EndsOf(text, n, s))
             IN  [s |-> s, e |-> e, cut |-> Len(n)]

hasGeneratedCode(text, n) == getFunctionMarkerRange(text, n) # NoRange

\* every START marker (tagged or not) that is followed by a line break, paired
\* with the first END marker (tagged or not) behind it; the scan goes on
\* behind the END marker
RECURSIVE AllRangesFrom(_, _)
AllRangesFrom(text, from) ==
    LET ss == {s \in from..Len(text) :
                 /\ text[s].k = "start" /\ s < Len(text)
                 /\ \E e \in (s + 1)..Len(text) : text[e].k = "end"}
    IN  IF ss = {} THEN << >>
        ELSE LET s == Min(ss)
                 e == Min({i \in (s + 1)..Len(text) : text[i].k = "end"})
             IN  <<[s |-> s, e |-> e, cut |-> Len(text[e].tag)]>>
                 \o AllRangesFrom(text, e + 1)

\* variant: the scan goes on behind the START marker of a span
getAllMarkerRangesEveryStart(text) ==
    LET ss == {s \in 1..Len(text) :
                 /\ text[s].k = "start" /\ s < Len(text)
                 /\ \E e \in (s + 1)..Len(text) : text[e].k = "end"}
    IN  [j \in 1..Cardinality(ss) |->
           LET s == CHOOSE x \in ss : Cardinality({y \in ss : y <= x}) = j
               e == Min({i \in (s + 1)..Len(text) : text[i].k = "end"})
           IN  [s |-> s, e |-> e, cut |-> Len(text[e].tag)]]

getAllMarkerRanges(text) == AllRangesFrom(text, 1)

\* the first START:<name> inside the range
getFunctionNameFromMarker(text, rg) ==
    LET ts == {i \in rg.s..rg.e : text[i].k = "start" /\ text[i].tag # NoName}
    IN  IF ts = {} THEN NoName ELSE text[Min(ts)].tag

isCodeCommented(text, n) ==
    LET rg == getFunctionMarkerRange(text, n)
    IN  IF rg = NoRange THEN FALSE
        ELSE \A i \in rg.s..rg.e :
               (~IncludesMarker(text[i]) /\ ~IsBlank(text[i]))
                  => StartsWithSlashes(text[i])

(* ------------------- comment / uncomment (line maps) ------------------ *)

\* variant: no range is ever skipped
FullyCommentedNever(text, rg) == FALSE

\* stopQuokka: the test that skips a range
FullyCommented(text, rg) ==
    \A i \in rg.s..rg.e :
        IsBlank(text[i]) \/ StartsWithSlashes(text[i]) \/ IncludesMarker(text[i])

\* the words of an untagged marker, its slashes taken off
BareMarker(l) ==
    l.k = "code" /\ l.tag = NoName /\ l.cm = NoPrefix /\ l.txt \in {"START", "END"}

\* stopQuokka: line.replace(/^(\s*)/, '$1// '); slashes in front of the words
\* of a marker make an untagged marker
CommentLine(l) ==
    IF IncludesMarker(l) \/ StartsWithSlashes(l) \/ IsBlank(l) THEN l
    ELSE IF BareMarker(l)
         THEN Line(IF l.txt = "START" THEN "start" ELSE "end",
                   l.ind, NoName, NoPrefix, "")
    ELSE [l EXCEPT !.cm = <<"// ">> \o @]

\* runFunction: line.replace(/^(\s*)\/\/ /, '$1')
UncommentLine(l) ==
    IF IncludesMarker(l) \/ ~StartsWithSlashes(l) \/ IsBlank(l) THEN l
    ELSE IF l.k \in {"start", "end"}
         THEN Line("code", l.ind, NoName, NoPrefix,
                   IF l.k = "start" THEN "START" ELSE "END")
    ELSE IF Head(l.cm) = "// " THEN [l EXCEPT !.cm = Tail(@)]
    ELSE l

\* the ranges stopQuokka rewrites
StopRanges(text) ==
    LET all == getAllMarkerRanges(text)
    IN  {all[j] : j \in {i \in 1..Len(all) : ~FullyCommented(text, all[i])}}

\* the document after stopQuokka's edits
CommentAll(text) ==
    [i \in 1..Len(text) |->
        IF \E rg \in StopRanges(text) : i \in rg.s..rg.e
        THEN CommentLine(text[i]) ELSE text[i]]

\* the ranges stopQuokka rewrites that carry a function name
NamedStopRanges(text) ==
    {rg \in StopRanges(text) : getFunctionNameFromMarker(text, rg) # NoName}

\* the names stopQuokka marks commented and removes from the executed set
StopNames(text) ==
    {getFunctionNameFromMarker(text, rg) : rg \in StopRanges(text)} \ {NoName}

\* the document after runFunction's uncomment edit on range rg
UncommentRange(text, rg) ==
    [i \in 1..Len(text) |->
        IF i \in rg.s..rg.e THEN UncommentLine(text[i]) ELSE text[i]]

(* --------------------------- region edits ----------------------------- *)

\* `${indentation}${aiGeneratedCode}`: only the first line is indented
IndentFirst(body, indentation) ==
    [i \in 1..Len(body) |->
        IF i = 1 THEN [body[i] EXCEPT !.ind = @ + indentation] ELSE body[i]]

\* codeWithMarkers: the region and one empty line
codeWithMarkers(indentation, n, body) ==
    <<StartLine(indentation, n)>> \o IndentFirst(body, indentation)
        \o <<EndLine(indentation, n), BlankLine(0)>>

\* codeWithMarkersNoExtraLine: the region, ending with a line break
codeWithMarkersNoExtraLine(indentation, n, body) ==
    <<StartLine(indentation, n)>> \o IndentFirst(body, indentation)
        \o <<EndLine(indentation, n)>>

\* what stays of line rg.e behind the range
Remainder(text, rg, ind) ==
    IF rg.cut < Len(text[rg.e].tag) THEN TailLine(ind) ELSE BlankLine(ind)

\* variant: the insert lands one line lower
InsertAtBelow(text, lineNumber, lines) ==
    SubSeq(text, 1, lineNumber + 1) \o lines
        \o SubSeq(text, lineNumber + 2, Len(text))

\* edit.insert at Position(lineNumber, 0), lineNumber counted from 0
InsertAt(text, lineNumber, lines) ==
    SubSeq(text, 1, lineNumber) \o lines \o SubSeq(text, lineNumber + 1, Len(text))

\* edit.replace of a marker range by a region text that ends with a line
\* break: the range starts behind the indentation of its first line
ReplaceRange(text, rg, lines) ==
    SubSeq(text, 1, rg.s - 1)
        \o <<[lines[1] EXCEPT !.ind = @ + text[rg.s].ind]>>
        \o SubSeq(lines, 2, Len(lines))
        \o <<Remainder(text, rg, 0)>>
        \o SubSeq(text, rg.e + 1, Len(text))

\* edit.delete of a marker range
DeleteRange(text, rg) ==
    SubSeq(text, 1, rg.s - 1)
        \o <<Remainder(text, rg, text[rg.s].ind)>>
        \o SubSeq(text, rg.e + 1, Len(text))

\* removeGeneratedCode: the tag-exact range, else the first range of the
\* document whose text holds a call of the function
RemoveTarget(text, n) ==
    LET rg == getFunctionMarkerRange(text, n)
        all == getAllMarkerRanges(text)
        hits == {j \in 1..Len(all) :
                   \E i \in all[j].s..all[j].e : CallsFunction(text[i], n)}
    IN  IF rg # NoRange THEN rg
        ELSE IF hits = {} THEN NoRange
        ELSE all[Min(hits)]

(* ------------------------- external collaborators --------------------- *)

\* what the language-model call of askAIForFunctionCall ends with
Response(kind, code) == [kind |-> kind, code |-> code]

\* variant: a failed call of the language model yields no text
askAIForFunctionCallNoFallback(n, response) ==
    IF response.kind = "code" THEN response.code ELSE << >>

\* the text askAIForFunctionCall returns: the model's code, or one of the
\* fallback calls
askAIForFunctionCall(n, response) ==
    IF response.kind = "nokey" THEN <<CallLine(n, "/* OpenAI API key not provided */")>>
    ELSE IF response.kind = "unparsable" THEN <<CallLine(n, "/* Error parsing AI response */")>>
    ELSE IF response.kind = "empty" THEN <<CallLine(n, "/* AI failed to generate params */")>>
    ELSE IF response.kind = "throw" THEN <<CallLine(n, "")>>
    ELSE response.code

\* getOpenAIApiKey: a key is configured or stored, or there is none
KeyStates == {"none", "set"}

\* what the lookup of the key yields: with a key set it is found, in the
\* settings or by secrets.get, or secrets.get throws and it is not; with
\* none set it is not found
KeyFound == IF apiKey = "set" THEN {TRUE, FALSE} ELSE {FALSE}

\* how showInputBox ends: a key is typed, the box is dismissed, or the call
\* rejects
KeyAnswers ==
    {"typed", "dismissed"} \cup (IF fails < MaxFails THEN {"rejected"} ELSE {})

\* the answers of the language model the behaviours draw from
AIResponses(n) ==
    {Response("nokey", << >>),
     Response("throw", << >>),
     Response("empty", << >>),
     Response("unparsable", << >>),
     Response("code", <<CallLine(n, "args")>>),
     Response("code", <<NoteLine, CallLine(n, "args")>>)}

\* an awaited external step completes or throws
Outcomes == IF fails < MaxFails THEN {"ok", "throw"} ELSE {"ok"}
\* workspace.applyEdit applies the edit, reports it as not applied, or throws
EditOutcomes == IF fails < MaxFails THEN {"ok", "rejected", "throw"} ELSE {"ok"}

(* ------------------------------ Region Store -------------------------- *)

isProcessing(n) == n \in processingFunctions
hasBeenExecuted(n) == n \in executedFunctions
hasActiveExecution(text, n) == hasBeenExecuted(n) /\ hasGeneratedCode(text, n)

startProcessing(n) ==
    processingFunctions' = processingFunctions \cup {n}

\* the calls of _onDidChangeCodeLenses.fire() a mutating method makes
Fires(method) == IF method = "markCodeAsCommented" THEN 0 ELSE 1

\* invocation r has called the methods ms, k times over
Called(r, ms, k) ==
    [r EXCEPT !.calls = @ + k * Len(ms),
              !.fired = @ + k * Cardinality({i \in 1..Len(ms) : Fires(ms[i]) = 1})]

endProcessing(n) ==
    /\ processingFunctions' = processingFunctions \ {n}
    /\ executedFunctions' = executedFunctions \cup {n}

(* ------------------------------ Lens Presenter ------------------------ *)

\* the lines provideCodeLenses recognizes as function headers, counted from 0
DeclLinesOf(text, n) ==
    {i - 1 : i \in {j \in 1..Len(text) :
                      text[j].k = "decl" /\ text[j].cm = NoPrefix
                      /\ text[j].tag = n}}

\* the command a lens is bound to, and its regenerate argument
LensCommand(title) ==
    IF title = "running" THEN [command |-> "runFunction", regenerate |-> FALSE]
    ELSE IF title = "generate" THEN [command |-> "runFunction", regenerate |-> TRUE]
    ELSE IF title = "run" THEN [command |-> "runFunction", regenerate |-> FALSE]
    ELSE IF title = "remove" THEN [command |-> "removeGeneratedCode", regenerate |-> FALSE]
    ELSE [command |-> "stopQuokka", regenerate |-> FALSE]

\* variant: the Stop lens follows the executed flag alone
provideCodeLensesStopOnExecuted(text, n) ==
    IF DeclLinesOf(text, n) = {} THEN {}
    ELSE IF isProcessing(n) THEN {"running"}
    ELSE {"generate"}
         \cup (IF hasGeneratedCode(text, n) THEN {"run", "remove"} ELSE {})
         \cup (IF hasBeenExecuted(n) THEN {"stop"} ELSE {})

\* the commands the lenses of function n offer
provideCodeLenses(text, n) ==
    IF DeclLinesOf(text, n) = {} THEN {}
    ELSE IF isProcessing(n) THEN {"running"}
    ELSE {"generate"}
         \cup (IF hasGeneratedCode(text, n) THEN {"run", "remove"} ELSE {})
         \cup (IF hasGeneratedCode(text, n) /\ hasActiveExecution(text, n)
               THEN {"stop"} ELSE {})

(* ------------------------------ invocations --------------------------- *)

\* An invocation of a command: its arguments (fn, line, regen), where it
\* stands (pc), the outcome of its pending edit (res), and what it has done
\* so far: notices shown, Runner run and stop calls, edits applied, whether a
\* step threw.  key is the step inside askAIForFunctionCall an invocation at
\* pc "ai" awaits: secrets.get ("get"), the input box ("ask"), secrets.store
\* ("store"), the update of the settings ("update") or the language model
\* ("model").  alone and had record the moment of the invocation (no other
\* command in flight, a region for fn in the document); gen is how the call
\* of the language model ended and code the text the Code Generator
\* returned to the invocation; calls counts its calls of the Region Store's
\* mutating methods and fired the lens-change notifications they fired;
\* stopped records that stopQuokka ran while the invocation awaited the Code
\* Generator.
NoRet ==
    [id |-> 0, cmd |-> "none", fn |-> NoName, line |-> 0, regen |-> FALSE,
     pc |-> "none", res |-> "none", notes |-> 0, runs |-> 0, stops |-> 0,
     edits |-> 0, failed |-> FALSE, alone |-> FALSE, had |-> FALSE,
     gen |-> "none", code |-> << >>, calls |-> 0, fired |-> 0,
     stopped |-> FALSE, key |-> "none"]

NewInv(cmd, n, line, regen, pc) ==
    [id |-> cmds + 1, cmd |-> cmd, fn |-> n, line |-> line, regen |-> regen,
     pc |-> pc, res |-> "none", notes |-> 0, runs |-> 0, stops |-> 0,
     edits |-> 0, failed |-> FALSE, alone |-> (inv = {}),
     had |-> IF n = NoName THEN FALSE ELSE hasGeneratedCode(doc, n),
     gen |-> "none", code |-> << >>, calls |-> 0, fired |-> 0,
     stopped |-> FALSE, key |-> "none"]

Notice(r) == [r EXCEPT !.notes = @ + 1]
Failed(r) == [Notice(r) EXCEPT !.failed = TRUE]
Edited(r, res) ==
    [r EXCEPT !.res = res, !.edits = IF res = "ok" THEN @ + 1 ELSE @]

Continue(r, r2) == inv' = (inv \ {r}) \cup {r2} /\ ret' = ret
Return(r, r2) == inv' = inv \ {r} /\ ret' = [r2 EXCEPT !.pc = "done"]

CountFail(res) == fails' = IF res = "ok" THEN fails ELSE fails + 1

\* the Region Store is empty and nothing is in flight when the extension
\* is activated
InitStore ==
    /\ dirty = FALSE
    /\ processingFunctions = {}
    /\ executedFunctions = {}
    /\ commentedCode = [n \in Names |-> "unset"]
    /\ inv = {}
    /\ ret = NoRet
    /\ cmds = 0
    /\ fails = 0
    /\ quokkaInstalled \in BOOLEAN
    /\ apiKey \in KeyStates
    /\ gens = 0

\* documents without markers: two functions, one of them indented
MarkerFreeDocs ==
    {<<DeclLine(0, F), DeclLine(1, FG)>>, <<DeclLine(0, FG), DeclLine(1, F)>>}

\* a document saved by an earlier session, with a commented region for f
SavedDoc ==
    <<StartLine(0, F), CommentLine(CallLine(F, "args")), EndLine(0, F),
      BlankLine(0), DeclLine(0, F), DeclLine(1, FG)>>

Init == doc \in MarkerFreeDocs /\ InitStore

(* ------------------------ function-run.runFunction -------------------- *)

\* variant: the guard lets every invocation pass
AlreadyProcessingNever(n) == FALSE

\* variant: the guard rejects while any function is processing
AlreadyProcessingAny(n) == processingFunctions # {}

\* the guard of runFunction
AlreadyProcessing(n) == isProcessing(n)

\* variant: the processing flag is not cleared
FinallyKeepsProcessing(r, threw) ==
    /\ UNCHANGED processingFunctions
    /\ executedFunctions' = executedFunctions \cup {r.fn}
    /\ Return(r, IF threw THEN Failed(r) ELSE r)

\* inner finally, and the outer catch (which calls endProcessing again) when
\* the step threw
Finally(r, threw) ==
    /\ endProcessing(r.fn)
    /\ Return(r, IF threw
                 THEN Called(Failed(r), <<"endProcessing", "endProcessing">>, 1)
                 ELSE Called(r, <<"endProcessing">>, 1))

\* the command is invoked from a lens of function n (the Running lens, or a
\* lens not yet refreshed, while the function is processing); an invocation
\* for a function that is processing shows a notice and returns
RunInvoke(n, regenerate) ==
    /\ cmds < MaxCmds
    /\ regenerate => gens < MaxGenerates
    /\ \/ isProcessing(n) /\ DeclLinesOf(doc, n) # {}
       \/ (IF regenerate THEN "generate" ELSE "run") \in provideCodeLenses(doc, n)
    /\ \E lineNumber \in DeclLinesOf(doc, n) :
         LET r == NewInv("run", n, lineNumber, regenerate, "check")
         IN  IF AlreadyProcessing(n)
             THEN /\ Return(r, [Notice(r) EXCEPT !.res = "rejected"])
                  /\ UNCHANGED processingFunctions
             ELSE /\ startProcessing(n)
                  /\ inv' = inv \cup {Called(r, <<"startProcessing">>, 1)}
                  /\ ret' = ret
    /\ cmds' = cmds + 1
    /\ gens' = IF regenerate THEN gens + 1 ELSE gens
    /\ UNCHANGED <<doc, dirty, executedFunctions, commentedCode, fails,
                   quokkaInstalled, apiKey>>

\* await isQuokkaInstalled(); the error message when it is not
RunCheck(r) ==
    /\ r.cmd = "run" /\ r.pc = "check"
    /\ IF quokkaInstalled
       THEN Continue(r, [r EXCEPT !.pc = "open"])
       ELSE Continue(r, [Notice(r) EXCEPT !.pc = "notInstalled"])
    /\ UNCHANGED <<doc, dirty, processingFunctions, executedFunctions,
                   commentedCode, cmds, fails, quokkaInstalled, apiKey, gens>>

\* the error message is answered; when the user picks the install option the
\* extension search is opened, and when that throws the outer catch calls
\* endProcessing and shows its error message; else endProcessing and return
RunNotInstalled(r) ==
    /\ r.cmd = "run" /\ r.pc = "notInstalled"
    /\ \E out \in Outcomes :
         /\ endProcessing(r.fn)
         /\ Return(r, Called(IF out = "throw" THEN Failed(r) ELSE r,
                             <<"endProcessing">>, 1))
         /\ CountFail(out)
    /\ UNCHANGED <<doc, dirty, commentedCode, cmds, quokkaInstalled, apiKey, gens>>

\* the uncomment edit of the run-without-regenerate path
RunUncomment(r, res) ==
    /\ doc' = IF res = "ok"
              THEN UncommentRange(doc, getFunctionMarkerRange(doc, r.fn))
              ELSE doc
    /\ dirty' = (dirty \/ res = "ok")
    /\ Continue(r, [Edited(r, res) EXCEPT !.pc = "uncSave"])
    /\ UNCHANGED <<processingFunctions, executedFunctions, commentedCode>>

\* variant: the region counts as commented when the store says so
hasCommentedCodeFromStore(text, n) ==
    hasGeneratedCode(text, n) /\ commentedCode[n] = "true"

\* variant: every region counts as commented
hasCommentedCodeAnyRegion(text, n) == hasGeneratedCode(text, n)

\* hasMarkers && hasCommentedCode: the test of the uncomment path
hasCommentedCode(text, n) ==
    hasGeneratedCode(text, n) /\ isCodeCommented(text, n)

\* the document is open and unfolded (or that threw); then, up to the next
\* await: the uncomment edit, the call of the Code Generator, or the call of
\* the Runner
RunOpen(r) ==
    /\ r.cmd = "run" /\ r.pc = "open"
    /\ \E out \in Outcomes, res \in EditOutcomes :
         /\ IF out = "throw"
            THEN /\ res = "ok"
                 /\ endProcessing(r.fn)
                 /\ Return(r, Called(Failed(r), <<"endProcessing">>, 1))
                 /\ CountFail(out)
                 /\ UNCHANGED <<doc, dirty, commentedCode>>
            ELSE IF ~r.regen /\ hasCommentedCode(doc, r.fn)
            THEN /\ RunUncomment(r, res)
                 /\ CountFail(res)
            ELSE IF r.regen
            THEN /\ res = "ok"
                 /\ Continue(r, [r EXCEPT !.pc = "ai", !.key = "get"])
                 /\ UNCHANGED <<doc, dirty, processingFunctions,
                                executedFunctions, commentedCode, fails>>
            ELSE /\ res = "ok"
                 /\ Continue(r, [Notice(r) EXCEPT !.pc = "run", !.runs = @ + 1])
                 /\ UNCHANGED <<doc, dirty, processingFunctions,
                                executedFunctions, commentedCode, fails>>
    /\ UNCHANGED <<cmds, quokkaInstalled, apiKey, gens>>

\* the uncomment edit and the save are done (or one threw); then
\* markCodeAsCommented(false), the notice, endProcessing and the Runner call
RunUncSave(r) ==
    /\ r.cmd = "run" /\ r.pc = "uncSave"
    /\ \E out \in Outcomes :
         IF r.res = "throw" \/ out = "throw"
         THEN /\ (r.res = "throw" => out = "ok")
              /\ Finally(r, TRUE)
              /\ CountFail(out)
              /\ UNCHANGED <<dirty, commentedCode>>
         ELSE /\ dirty' = FALSE
              /\ commentedCode' = [commentedCode EXCEPT ![r.fn] = "false"]
              /\ endProcessing(r.fn)
              /\ Continue(r, [Called(Notice(r), <<"markCodeAsCommented",
                                                  "endProcessing">>, 1)
                                EXCEPT !.pc = "run", !.runs = @ + 1])
              /\ UNCHANGED fails
    /\ UNCHANGED <<doc, cmds, quokkaInstalled, apiKey, gens>>

\* the lines of a TextDocument: the empty text is one empty line
\* (lineCount 1, lineAt(0).text = "")
DocumentLines(text) == IF text = << >> THEN <<BlankLine(0)>> ELSE text

\* variant: the region is inserted without a look for an existing one
RunRegionEditInsertOnly(text, n, lineNumber, body) ==
    InsertAt(DocumentLines(text), lineNumber,
             codeWithMarkers(DocumentLines(text)[lineNumber + 1].ind, n, body))

\* the region edit of the regenerate path, at the line number of the lens
RunRegionEdit(text, n, lineNumber, body) ==
    LET lines == DocumentLines(text)
        indentation == lines[lineNumber + 1].ind
    IN  IF hasGeneratedCode(lines, n)
        THEN ReplaceRange(lines, getFunctionMarkerRange(lines, n),
                          codeWithMarkersNoExtraLine(indentation, n, body))
        ELSE InsertAt(lines, lineNumber, codeWithMarkers(indentation, n, body))

\* the answers askAIForFunctionCall gives once it has a key
ModelResponses(n) == {rs \in AIResponses(n) : rs.kind # "nokey"}

\* askAIForFunctionCall has returned (threw: 1 when a step inside it threw in
\* this step, else 0); document.lineAt(lineNumber) throws behind the last
\* line; else the region is replaced or inserted
RunGenerated(r, response, threw) ==
    IF r.line >= Len(DocumentLines(doc))
    THEN /\ endProcessing(r.fn)
         /\ Return(r, [Called(Failed(r), <<"endProcessing", "endProcessing">>, 1)
                         EXCEPT !.key = "none"])
         /\ fails' = fails + threw
         /\ UNCHANGED <<doc, dirty>>
    ELSE \E res \in EditOutcomes :
           LET aiGeneratedCode == askAIForFunctionCall(r.fn, response)
           IN  /\ threw = 1 => res = "ok"
               /\ doc' = IF res = "ok"
                         THEN RunRegionEdit(doc, r.fn, r.line, aiGeneratedCode)
                         ELSE doc
               /\ dirty' = (dirty \/ res = "ok")
               /\ Continue(r, [Edited(r, res)
                                 EXCEPT !.pc = "genSave", !.key = "none",
                                        !.gen = response.kind,
                                        !.code = aiGeneratedCode])
               /\ fails' = fails + threw + (IF res = "ok" THEN 0 ELSE 1)
               /\ UNCHANGED <<processingFunctions, executedFunctions>>

\* getOpenAIApiKey, the lookup: a key that is found goes to the language
\* model; else the input box is shown
RunKeyGet(r) ==
    /\ r.cmd = "run" /\ r.pc = "ai" /\ r.key = "get"
    /\ \E found \in KeyFound :
         Continue(r, [r EXCEPT !.key = IF found THEN "model" ELSE "ask"])
    /\ UNCHANGED <<doc, dirty, processingFunctions, executedFunctions,
                   commentedCode, cmds, fails, quokkaInstalled, apiKey, gens>>

\* getOpenAIApiKey, the input box is answered: a typed key is handed to
\* secrets.store; dismissed, askAIForFunctionCall returns the call with the
\* note that no key was provided; when showInputBox rejects, its catch
\* returns the bare call
RunKeyAsk(r) ==
    /\ r.cmd = "run" /\ r.pc = "ai" /\ r.key = "ask"
    /\ \E answer \in KeyAnswers :
         IF answer = "typed"
         THEN /\ Continue(r, [r EXCEPT !.key = "store"])
              /\ UNCHANGED <<doc, dirty, processingFunctions,
                             executedFunctions, fails>>
         ELSE IF answer = "dismissed"
         THEN RunGenerated(r, Response("nokey", << >>), 0)
         ELSE RunGenerated(r, Response("throw", << >>), 1)
    /\ UNCHANGED <<commentedCode, cmds, quokkaInstalled, apiKey, gens>>

\* getOpenAIApiKey, secrets.store has returned: the key is stored and the
\* notice is shown; or it threw, and the key is written to the settings
RunKeyStore(r) ==
    /\ r.cmd = "run" /\ r.pc = "ai" /\ r.key = "store"
    /\ \E out \in Outcomes :
         /\ IF out = "ok"
            THEN /\ apiKey' = "set"
                 /\ Continue(r, [Notice(r) EXCEPT !.key = "model"])
            ELSE /\ apiKey' = apiKey
                 /\ Continue(r, [r EXCEPT !.key = "update"])
         /\ CountFail(out)
    /\ UNCHANGED <<doc, dirty, processingFunctions, executedFunctions,
                   commentedCode, cmds, quokkaInstalled, gens>>

\* getOpenAIApiKey, the update of the settings has returned: the key is set,
\* without a notice; or it threw, and the catch of askAIForFunctionCall
\* returns the bare call
RunKeyUpdate(r) ==
    /\ r.cmd = "run" /\ r.pc = "ai" /\ r.key = "update"
    /\ \E out \in Outcomes :
         IF out = "ok"
         THEN /\ apiKey' = "set"
              /\ Continue(r, [r EXCEPT !.key = "model"])
              /\ UNCHANGED <<doc, dirty, processingFunctions,
                             executedFunctions, fails>>
         ELSE /\ apiKey' = apiKey
              /\ RunGenerated(r, Response("throw", << >>), 1)
    /\ UNCHANGED <<commentedCode, cmds, quokkaInstalled, gens>>

\* the language model has answered (or the call threw) and
\* askAIForFunctionCall returns its text
RunAI(r) ==
    /\ r.cmd = "run" /\ r.pc = "ai" /\ r.key = "model"
    /\ \E response \in ModelResponses(r.fn) : RunGenerated(r, response, 0)
    /\ UNCHANGED <<commentedCode, cmds, quokkaInstalled, apiKey, gens>>

\* variant: endProcessing is called before the Runner, as on the uncomment
\* path
RunGenSaveEndsEarly(r) ==
    /\ r.cmd = "run" /\ r.pc = "genSave"
    /\ \E out \in Outcomes :
         IF r.res = "throw" \/ out = "throw"
         THEN /\ (r.res = "throw" => out = "ok")
              /\ Finally(r, TRUE)
              /\ CountFail(out)
              /\ UNCHANGED dirty
         ELSE /\ dirty' = FALSE
              /\ endProcessing(r.fn)
              /\ Continue(r, [Called(Notice(r), <<"endProcessing">>, 1)
                                EXCEPT !.pc = "run", !.runs = @ + 1])
              /\ UNCHANGED fails
    /\ UNCHANGED <<doc, commentedCode, cmds, quokkaInstalled, apiKey, gens>>

\* the region edit and the save are done (or one threw); then the notice and
\* the Runner call
RunGenSave(r) ==
    /\ r.cmd = "run" /\ r.pc = "genSave"
    /\ \E out \in Outcomes :
         IF r.res = "throw" \/ out = "throw"
         THEN /\ (r.res = "throw" => out = "ok")
              /\ Finally(r, TRUE)
              /\ CountFail(out)
              /\ UNCHANGED dirty
         ELSE /\ dirty' = FALSE
              /\ Continue(r, [Notice(r) EXCEPT !.pc = "run", !.runs = @ + 1])
              /\ UNCHANGED <<processingFunctions, executedFunctions, fails>>
    /\ UNCHANGED <<doc, commentedCode, cmds, quokkaInstalled, apiKey, gens>>

\* the Runner's run action has returned or thrown: finally (and catch)
RunDone(r) ==
    /\ r.cmd = "run" /\ r.pc = "run"
    /\ \E out \in Outcomes :
         /\ Finally(r, out = "throw")
         /\ CountFail(out)
    /\ UNCHANGED <<doc, dirty, commentedCode, cmds, quokkaInstalled, apiKey, gens>>

(* -------------------- function-run.removeGeneratedCode ---------------- *)

removeFromExecuted(n) == executedFunctions' = executedFunctions \ {n}

RemoveInvoke(n) ==
    /\ cmds < MaxCmds
    /\ "remove" \in provideCodeLenses(doc, n)
    /\ \E lineNumber \in DeclLinesOf(doc, n) :
         inv' = inv \cup {NewInv("remove", n, lineNumber, FALSE, "open")}
    /\ cmds' = cmds + 1
    /\ UNCHANGED <<doc, dirty, processingFunctions, executedFunctions,
                   commentedCode, ret, fails, quokkaInstalled, apiKey, gens>>

\* variant: a remove that finds no range still calls function-run.stopQuokka
RemoveOpenStopsAnyway(r) ==
    /\ r.cmd = "remove" /\ r.pc = "open"
    /\ \E out \in Outcomes, res \in EditOutcomes :
         IF out = "throw"
         THEN /\ res = "ok"
              /\ Return(r, Failed(r))
              /\ CountFail(out)
              /\ UNCHANGED <<doc, dirty>>
         ELSE IF RemoveTarget(doc, r.fn) = NoRange
         THEN /\ res = "ok"
              /\ Continue(r, [Notice(r) EXCEPT !.pc = "stop", !.stops = @ + 1])
              /\ UNCHANGED <<doc, dirty, fails>>
         ELSE /\ doc' = IF res = "ok"
                        THEN DeleteRange(doc, RemoveTarget(doc, r.fn))
                        ELSE doc
              /\ dirty' = (dirty \/ res = "ok")
              /\ Continue(r, [Edited(r, res) EXCEPT !.pc = "removeSave"])
              /\ CountFail(res)
    /\ UNCHANGED <<processingFunctions, executedFunctions, commentedCode,
                   cmds, quokkaInstalled, apiKey, gens>>

\* the document is open (or that threw); the range to delete is looked up
\* and the delete edit is issued
RemoveOpen(r) ==
    /\ r.cmd = "remove" /\ r.pc = "open"
    /\ \E out \in Outcomes, res \in EditOutcomes :
         IF out = "throw"
         THEN /\ res = "ok"
              /\ Return(r, Failed(r))
              /\ CountFail(out)
              /\ UNCHANGED <<doc, dirty>>
         ELSE IF RemoveTarget(doc, r.fn) = NoRange
         THEN /\ res = "ok"
              /\ Return(r, Notice(r))
              /\ UNCHANGED <<doc, dirty, fails>>
         ELSE /\ doc' = IF res = "ok"
                        THEN DeleteRange(doc, RemoveTarget(doc, r.fn))
                        ELSE doc
              /\ dirty' = (dirty \/ res = "ok")
              /\ Continue(r, [Edited(r, res) EXCEPT !.pc = "removeSave"])
              /\ CountFail(res)
    /\ UNCHANGED <<processingFunctions, executedFunctions, commentedCode,
                   cmds, quokkaInstalled, apiKey, gens>>

\* the delete edit is done (or threw): removeFromExecuted, and the save is
\* issued
RemoveSave(r) ==
    /\ r.cmd = "remove" /\ r.pc = "removeSave"
    /\ IF r.res = "throw"
       THEN /\ Return(r, Failed(r))
            /\ UNCHANGED executedFunctions
       ELSE /\ removeFromExecuted(r.fn)
            /\ Continue(r, [Called(r, <<"removeFromExecuted">>, 1)
                              EXCEPT !.pc = "removeStop"])
    /\ UNCHANGED <<doc, dirty, processingFunctions, commentedCode, cmds, fails,
                   quokkaInstalled, apiKey, gens>>

\* the save is done (or threw): the notice and the call of
\* function-run.stopQuokka, which calls the Runner's stop
RemoveStop(r) ==
    /\ r.cmd = "remove" /\ r.pc = "removeStop"
    /\ \E out \in Outcomes :
         IF out = "throw"
         THEN /\ Return(r, Failed(r))
              /\ CountFail(out)
              /\ UNCHANGED dirty
         ELSE /\ dirty' = FALSE
              /\ Continue(r, [Notice(r) EXCEPT !.pc = "stop", !.stops = @ + 1])
              /\ UNCHANGED fails
    /\ UNCHANGED <<doc, processingFunctions, executedFunctions, commentedCode,
                   cmds, quokkaInstalled, apiKey, gens>>

(* ----------------------- function-run.stopQuokka ---------------------- *)

\* the command is invoked from a Stop lens; it calls the Runner's stop
StopInvoke ==
    /\ cmds < MaxCmds
    /\ \E n \in Names : "stop" \in provideCodeLenses(doc, n)
    /\ inv' = inv \cup {[NewInv("stop", NoName, 0, FALSE, "stop")
                            EXCEPT !.stops = 1]}
    /\ cmds' = cmds + 1
    /\ UNCHANGED <<doc, dirty, processingFunctions, executedFunctions,
                   commentedCode, ret, fails, quokkaInstalled, apiKey, gens>>

\* variant: stopQuokka cancels the invocations that await the Code Generator
StopLeavesNone(S) == {q \in S : ~(q.cmd = "run" /\ q.pc = "ai")}

\* the invocations in flight as stopQuokka leaves them: it holds no handle on
\* a runFunction that awaits the Code Generator
StopLeaves(S) ==
    {IF q.cmd = "run" /\ q.pc = "ai" THEN [q EXCEPT !.stopped = TRUE] ELSE q :
       q \in S}

\* variant: the regions are commented and the store is updated before the
\* Runner's stop is called
StopResumeEditsFirst(r) ==
    /\ r.pc = "stop"
    /\ \E out \in Outcomes, res \in EditOutcomes, editor \in BOOLEAN :
         IF out = "throw"
         THEN /\ res = "ok" /\ editor
              /\ doc' = CommentAll(doc)
              /\ dirty' = (dirty \/ StopRanges(doc) # {})
              /\ commentedCode' =
                   [n \in Names |-> IF n \in StopNames(doc) THEN "true"
                                    ELSE commentedCode[n]]
              /\ executedFunctions' = executedFunctions \ StopNames(doc)
              /\ Return(r, Failed(r))
              /\ CountFail(out)
         ELSE IF ~editor
         THEN /\ res = "ok"
              /\ inv' = StopLeaves(inv \ {r})
              /\ ret' = [Notice(r) EXCEPT !.pc = "done"]
              /\ UNCHANGED <<doc, dirty, executedFunctions, commentedCode, fails>>
         ELSE IF StopRanges(doc) = {}
         THEN /\ res = "ok"
              /\ IF Len(getAllMarkerRanges(doc)) > 0
                 THEN /\ inv' = StopLeaves(inv \ {r}) \cup {[r EXCEPT !.pc = "fold"]}
                      /\ ret' = ret
                 ELSE /\ inv' = StopLeaves(inv \ {r})
                      /\ ret' = [Notice(r) EXCEPT !.pc = "done"]
              /\ UNCHANGED <<doc, dirty, executedFunctions, commentedCode, fails>>
         ELSE /\ doc' = IF res = "ok" THEN CommentAll(doc) ELSE doc
              /\ dirty' = (dirty \/ res = "ok")
              /\ commentedCode' =
                   [n \in Names |-> IF n \in StopNames(doc) THEN "true"
                                    ELSE commentedCode[n]]
              /\ executedFunctions' = executedFunctions \ StopNames(doc)
              /\ inv' = StopLeaves(inv \ {r})
                          \cup {[Called(Edited(r, res),
                                        <<"markCodeAsCommented", "removeFromExecuted">>,
                                        Cardinality(NamedStopRanges(doc)))
                                   EXCEPT !.pc = "stopSave"]}
              /\ ret' = ret
              /\ CountFail(res)
    /\ UNCHANGED <<processingFunctions, cmds, quokkaInstalled, apiKey, gens>>

\* the Runner's stop has returned (or thrown); with no active editor the
\* command shows its closing notice and returns; else the regions of the
\* document that are not fully commented are commented, and the store is
\* updated
StopResume(r) ==
    /\ r.pc = "stop"
    /\ \E out \in Outcomes, res \in EditOutcomes, editor \in BOOLEAN :
         IF out = "throw"
         THEN /\ res = "ok" /\ editor
              /\ Return(r, Failed(r))
              /\ CountFail(out)
              /\ UNCHANGED <<doc, dirty, executedFunctions, commentedCode>>
         ELSE IF ~editor
         THEN /\ res = "ok"
              /\ inv' = StopLeaves(inv \ {r})
              /\ ret' = [Notice(r) EXCEPT !.pc = "done"]
              /\ UNCHANGED <<doc, dirty, executedFunctions, commentedCode, fails>>
         ELSE IF StopRanges(doc) = {}
         THEN /\ res = "ok"
              /\ IF Len(getAllMarkerRanges(doc)) > 0
                 THEN /\ inv' = StopLeaves(inv \ {r}) \cup {[r EXCEPT !.pc = "fold"]}
                      /\ ret' = ret
                 ELSE /\ inv' = StopLeaves(inv \ {r})
                      /\ ret' = [Notice(r) EXCEPT !.pc = "done"]
              /\ UNCHANGED <<doc, dirty, executedFunctions, commentedCode, fails>>
         ELSE /\ doc' = IF res = "ok" THEN CommentAll(doc) ELSE doc
              /\ dirty' = (dirty \/ res = "ok")
              /\ commentedCode' =
                   [n \in Names |-> IF n \in StopNames(doc) THEN "true"
                                    ELSE commentedCode[n]]
              /\ executedFunctions' = executedFunctions \ StopNames(doc)
              /\ inv' = StopLeaves(inv \ {r})
                          \cup {[Called(Edited(r, res),
                                        <<"markCodeAsCommented", "removeFromExecuted">>,
                                        Cardinality(NamedStopRanges(doc)))
                                   EXCEPT !.pc = "stopSave"]}
              /\ ret' = ret
              /\ CountFail(res)
    /\ UNCHANGED <<processingFunctions, cmds, quokkaInstalled, apiKey, gens>>

\* the comment edit and the save are done (or one threw); the notice
StopSave(r) ==
    /\ r.pc = "stopSave"
    /\ \E out \in Outcomes :
         IF r.res = "throw" \/ out = "throw"
         THEN /\ (r.res = "throw" => out = "ok")
              /\ Return(r, Failed(r))
              /\ CountFail(out)
              /\ UNCHANGED dirty
         ELSE /\ dirty' = FALSE
              /\ Continue(r, [Notice(r) EXCEPT !.pc = "fold"])
              /\ UNCHANGED fails
    /\ UNCHANGED <<doc, processingFunctions, executedFunctions, commentedCode,
                   cmds, quokkaInstalled, apiKey, gens>>

\* the regions are folded (or that threw); the closing notice
StopFold(r) ==
    /\ r.pc = "fold"
    /\ \E out \in Outcomes :
         /\ Return(r, IF out = "throw" THEN Failed(r) ELSE Notice(r))
         /\ CountFail(out)
    /\ UNCHANGED <<doc, dirty, processingFunctions, executedFunctions,
                   commentedCode, cmds, quokkaInstalled, apiKey, gens>>

(* -------------------- function-run.setOpenAIApiKey -------------------- *)

\* the command has stored the key typed into its input box (secrets.store,
\* or the settings when that throws): a key is set.  The command is bound to
\* no lens and touches neither the document nor the Region Store; its notice
\* belongs to none of the invocations recorded in inv
setApiKeyCommand ==
    /\ apiKey' = "set"
    /\ UNCHANGED <<doc, dirty, processingFunctions, executedFunctions,
                   commentedCode, inv, ret, cmds, fails, quokkaInstalled, gens>>

(* ------------------------------ specification ------------------------- *)

\* every step an invocation in flight takes once its awaited step completes
Resume ==
    \/ \E r \in inv : RunCheck(r)
    \/ \E r \in inv : RunNotInstalled(r)
    \/ \E r \in inv : RunOpen(r)
    \/ \E r \in inv : RunUncSave(r)
    \/ \E r \in inv : RunKeyGet(r)
    \/ \E r \in inv : RunKeyAsk(r)
    \/ \E r \in inv : RunKeyStore(r)
    \/ \E r \in inv : RunKeyUpdate(r)
    \/ \E r \in inv : RunAI(r)
    \/ \E r \in inv : RunGenSave(r)
    \/ \E r \in inv : RunDone(r)
    \/ \E r \in inv : RemoveOpen(r)
    \/ \E r \in inv : RemoveSave(r)
    \/ \E r \in inv : RemoveStop(r)
    \/ \E r \in inv : StopResume(r)
    \/ \E r \in inv : StopSave(r)
    \/ \E r \in inv : StopFold(r)

\* a command is invoked from a lens
Invoke ==
    \/ \E n \in Names, regenerate \in BOOLEAN : RunInvoke(n, regenerate)
    \/ \E n \in Names : RemoveInvoke(n)
    \/ StopInvoke

Next == Invoke \/ Resume \/ setApiKeyCommand

Spec == Init /\ [][Next]_vars

\* The specification of the liveness claims: every awaited external step
\* eventually completes or throws; the session starts on a marker-free
\* document or on a saved one, and the user issues at most MaxFairCmds
\* commands.
InitFair == doc \in {<<DeclLine(0, F), DeclLine(1, FG)>>, SavedDoc} /\ InitStore

FairNext ==
    \/ cmds < MaxFairCmds /\ \E n \in Names, regenerate \in BOOLEAN :
                                 RunInvoke(n, regenerate)
    \/ cmds < MaxFairCmds /\ \E n \in Names : RemoveInvoke(n)
    \/ cmds < MaxFairCmds /\ StopInvoke
    \/ Resume
    \/ setApiKeyCommand

FairSpec == InitFair /\ [][FairNext]_vars /\ WF_vars(Resume)

\* The specification of the claim about the commentedCode map as a cache:
\* the session starts with any values in the map, everything else as in
\* InitFair, and the user issues at most MaxFairCmds commands.
CacheValues == {"unset", "true", "false"}

InitCache ==
    /\ doc \in {<<DeclLine(0, F), DeclLine(1, FG)>>, SavedDoc}
    /\ dirty = FALSE
    /\ processingFunctions = {}
    /\ executedFunctions = {}
    /\ commentedCode \in [Names -> CacheValues]
    /\ inv = {}
    /\ ret = NoRet
    /\ cmds = 0
    /\ fails = 0
    /\ quokkaInstalled \in BOOLEAN
    /\ apiKey \in KeyStates
    /\ gens = 0

CacheSpec == InitCache /\ [][FairNext]_vars

\* The specification of the claims about the marker scans as functions of
\* the text: the document is typed line by line, tagged and untagged markers,
\* code and empty lines in any order, so that every text of up to MaxLines
\* lines is a state.
TextLines ==
    {StartLine(0, F), StartLine(0, FG), StartLine(0, NoName),
     EndLine(0, F), EndLine(0, FG), EndLine(0, NoName),
     CallLine(F, "args"), BlankLine(0)}

TextInit == doc = << >> /\ InitStore

TypeLine(l) ==
    /\ Len(doc) < MaxLines
    /\ doc' = Append(doc, l)
    /\ dirty' = TRUE
    /\ UNCHANGED <<processingFunctions, executedFunctions, commentedCode,
                   inv, ret, cmds, fails, quokkaInstalled, apiKey, gens>>

TextNext == \E l \in TextLines : TypeLine(l)

TextSpec == TextInit /\ [][TextNext]_vars

\* The specification of the claim about the region edit as a function of
\* the text: a text of up to MaxEditLines lines is typed line by line, tagged
\* markers and declarations in any order, and the region edit of the
\* regenerate path is then applied to it once, for any function, any line
\* number of a lens and any text the Code Generator returns.
EditLines ==
    {StartLine(0, F), StartLine(0, FG), EndLine(0, F), EndLine(0, FG),
     DeclLine(1, F), DeclLine(0, FG), BlankLine(0)}

\* the region edit is applied for function n at the line number of the lens
\* with the text askAIForFunctionCall returns; ret records the arguments and
\* whether the text held a region for n
ApplyRegionEdit(n, lineNumber, response) ==
    /\ ret = NoRet
    /\ lineNumber < Len(DocumentLines(doc))
    /\ doc' = RunRegionEdit(doc, n, lineNumber,
                            askAIForFunctionCall(n, response))
    /\ dirty' = TRUE
    /\ ret' = [NoRet EXCEPT !.cmd = "run", !.fn = n, !.line = lineNumber,
                            !.regen = TRUE, !.pc = "genSave", !.res = "ok",
                            !.edits = 1, !.had = hasGeneratedCode(doc, n),
                            !.gen = response.kind,
                            !.code = askAIForFunctionCall(n, response)]
    /\ UNCHANGED <<processingFunctions, executedFunctions, commentedCode,
                   inv, cmds, fails, quokkaInstalled, apiKey, gens>>

EditNext ==
    \/ /\ ret = NoRet /\ Len(doc) < MaxEditLines
       /\ \E l \in EditLines : TypeLine(l)
    \/ \E n \in Names, lineNumber \in 0..(MaxEditLines - 1) :
          \E rs \in AIResponses(n) :
             ApplyRegionEdit(n, lineNumber, rs)

EditSpec == TextInit /\ [][EditNext]_vars

\* The specification of the claim about the keys of the Region Store: the
\* extension serves a second document, which holds a function named f as
\* well, and the user invokes runFunction from the lenses of both.  The text
\* of the second document is not part of the state; of a runFunction for it
\* the model keeps the calls of the Region Store.  removeGeneratedCode and
\* stopQuokka, which call neither startProcessing nor endProcessing, are not
\* invoked; so no region is commented out, and the uncomment edit of
\* runFunction is not reached.
OtherNames == {F}

\* the key `${fileName}|${functionName}` of function n of the second document
\* (the key of a function of the document of the model is written as its
\* name)
OtherKey(n) == <<"other", "|">> \o n

\* runFunction is invoked for function n of the second document and passes
\* the guard (it is turned away, changing nothing, while its key is
\* processing): startProcessing
OtherRunInvoke(n) ==
    /\ OtherKey(n) \notin processingFunctions
    /\ startProcessing(OtherKey(n))
    /\ UNCHANGED <<doc, dirty, executedFunctions, commentedCode, inv, ret,
                   cmds, fails, quokkaInstalled, apiKey, gens>>

\* that invocation ends: endProcessing, in its finally or its catch
OtherRunDone(n) ==
    /\ OtherKey(n) \in processingFunctions
    /\ endProcessing(OtherKey(n))
    /\ UNCHANGED <<doc, dirty, commentedCode, inv, ret, cmds, fails,
                   quokkaInstalled, apiKey, gens>>

\* a runFunction in flight on a document without a commented region goes on
\* once its awaited step completes
RunResume ==
    \/ \E r \in inv : RunCheck(r)
    \/ \E r \in inv : RunNotInstalled(r)
    \/ \E r \in inv : RunOpen(r)
    \/ \E r \in inv : RunKeyGet(r)
    \/ \E r \in inv : RunKeyAsk(r)
    \/ \E r \in inv : RunKeyStore(r)
    \/ \E r \in inv : RunKeyUpdate(r)
    \/ \E r \in inv : RunAI(r)
    \/ \E r \in inv : RunGenSave(r)
    \/ \E r \in inv : RunDone(r)

DocsNext ==
    \/ \E n \in Names, regenerate \in BOOLEAN : RunInvoke(n, regenerate)
    \/ RunResume
    \/ setApiKeyCommand
    \/ \E n \in OtherNames : OtherRunInvoke(n)
    \/ \E n \in OtherNames : OtherRunDone(n)

DocsSpec == Init /\ [][DocsNext]_vars

(* ------------------------------- claims ------------------------------- *)

\* a runFunction invocation that passed the guard returns in this step
RunReturns(r) == r.cmd = "run" /\ r \in inv /\ ret' # ret /\ ret'.id = r.id

\* C1: whenever a guard-passed runFunction invocation for f has not yet
\* returned, processing(f) is true, and no second guard-passed invocation for
\* f is in flight.
C1_InFlightIsProcessing ==
    \A r \in inv :
        r.cmd = "run" =>
            /\ isProcessing(r.fn)
            /\ \A q \in inv : (q.cmd = "run" /\ q.fn = r.fn) => q = r

\* C2: a runFunction invoked for a function that is processing returns at
\* once with one notice, no edit, no Runner action, and leaves the document
\* and every Region Store flag as they were.
C2_RejectedIsNoOp ==
    [][\A n \in Names :
         (/\ isProcessing(n)
          /\ cmds' = cmds + 1
          /\ \/ \E q \in inv' \ inv : q.cmd = "run" /\ q.fn = n
             \/ ret' # ret /\ ret'.id = cmds' /\ ret'.cmd = "run" /\ ret'.fn = n)
         => /\ inv' = inv
            /\ ret'.id = cmds' /\ ret'.pc = "done"
            /\ ret'.notes = 1 /\ ret'.edits = 0
            /\ ret'.runs = 0 /\ ret'.stops = 0
            /\ doc' = doc /\ dirty' = dirty
            /\ processingFunctions' = processingFunctions
            /\ executedFunctions' = executedFunctions
            /\ commentedCode' = commentedCode]_vars

\* a rejected invocation has returned while the function is still processing
C2_Witness ==
    /\ ret.cmd = "run" /\ ret.res = "rejected" /\ ret.notes = 1
    /\ isProcessing(ret.fn)

\* C3: every guard-passed runFunction invocation returns, whichever awaited
\* step succeeds or throws, and processing(f) is false when it returns.
C3_NoStuckProcessing ==
    /\ [][\A r \in inv : RunReturns(r) => r.fn \notin processingFunctions']_vars
    /\ \A id \in 1..MaxFairCmds :
         (\E r \in inv : r.id = id /\ r.cmd = "run")
            ~> ~(\E r \in inv : r.id = id)

\* a guard-passed invocation has returned after one of its steps threw
C3_Witness ==
    /\ ret.cmd = "run" /\ ret.failed /\ ret.edits = 1
    /\ ~isProcessing(ret.fn)

\* the region edit of a generate is applied in this step
GenEdit(r) ==
    /\ r \in inv /\ r.cmd = "run" /\ r.pc = "ai"
    /\ \E q \in inv' : q.id = r.id /\ q.pc = "genSave" /\ q.res = "ok"

\* the text the Code Generator returned to invocation r in this step
GenCode(r) == (CHOOSE q \in inv' : q.id = r.id).code

\* the comment edit of a stop-all is applied in this step
StopEdit(r) ==
    /\ r \in inv /\ r.pc = "stop"
    /\ \E q \in inv' : q.id = r.id /\ q.pc = "stopSave" /\ q.res = "ok"

StartsTagged(text, n) ==
    {i \in 1..Len(text) : text[i].k = "start" /\ text[i].tag = n}

\* C4: from a marker-free document, the document never holds two START
\* markers tagged with the same function name.
C4_AtMostOneRegion ==
    \A n \in Names : Cardinality(StartsTagged(doc, n)) <= 1

\* a region was regenerated: its END marker is followed by the empty line of
\* the replacement and the empty line of the first insert
C4_Witness ==
    \E n \in Names :
        /\ ret.cmd = "run" /\ ret.regen /\ ret.fn = n /\ ret.had /\ ret.edits = 1
        /\ Cardinality(StartsTagged(doc, n)) = 1
        /\ \E e \in 1..Len(doc) :
             /\ doc[e].k = "end" /\ doc[e].tag = n /\ e + 2 <= Len(doc)
             /\ doc[e + 1] = BlankLine(0) /\ doc[e + 2] = BlankLine(0)

\* C5: every span of getAllMarkerRanges has the same tag on its START and
\* its END marker, and no marker lies inside a span.
C5_WellFormedRegions ==
    \A j \in 1..Len(getAllMarkerRanges(doc)) :
        LET rg == getAllMarkerRanges(doc)[j]
        IN  /\ doc[rg.s].tag = doc[rg.e].tag
            /\ \A i \in (rg.s + 1)..(rg.e - 1) : doc[i].k \notin {"start", "end"}

\* the region of n ends right above the declaration of n, at its indentation
RegionAboveDecl(text, n) ==
    \E d \in 1..Len(text) :
        /\ d - 1 \in DeclLinesOf(text, n)
        /\ d >= 4
        /\ text[d - 1] = BlankLine(0)
        /\ text[d - 2] = EndLine(text[d].ind, n)
        /\ \E st \in 1..(d - 3) :
             /\ text[st] = StartLine(text[d].ind, n)
             /\ \A i \in (st + 1)..(d - 3) : text[i].k \notin {"start", "end"}

\* C6: when a generate for f inserts a new region, the region lands right
\* above the line that holds f's declaration at the moment of the edit, at
\* that line's indentation, whatever was edited while it awaited.
C6_FreshInsertPosition ==
    [][\A r \in inv :
         (GenEdit(r) /\ ~hasGeneratedCode(doc, r.fn))
            => RegionAboveDecl(doc', r.fn)]_vars

\* a generate for n, invoked with nothing else in flight on a document
\* without a region for n, has returned with no command issued since and no
\* step failed
SoloGenerate(n) ==
    /\ ret.cmd = "run" /\ ret.regen /\ ret.fn = n
    /\ ret.alone /\ ~ret.had /\ ret.id = cmds /\ inv = {}
    /\ ~ret.failed /\ ret.res = "ok" /\ ret.code # << >>

DeclOf(text, n) == 1 + Min(DeclLinesOf(text, n))

\* the result of a generate but for the text of the region body
GenerateResult(n) ==
    LET rg == getFunctionMarkerRange(doc, n)
        d == DeclOf(doc, n)
    IN  /\ Cardinality(StartsTagged(doc, n)) = 1
        /\ rg # NoRange
        /\ doc[rg.s] = StartLine(doc[d].ind, n)
        /\ doc[rg.e] = EndLine(doc[d].ind, n)
        /\ doc[rg.e + 1] = BlankLine(0)
        /\ d = rg.e + 2
        /\ ~dirty
        /\ ret.runs = 1
        /\ ~isProcessing(n)
        /\ hasBeenExecuted(n)

RegionBody(text, n) ==
    LET rg == getFunctionMarkerRange(text, n)
    IN  SubSeq(text, rg.s + 1, rg.e - 1)

\* C7 (as claimed): a generate for f on a document without a region for f,
\* with no interleaved command, ends with exactly one region tagged f whose
\* body is b, right above f's declaration and followed by one blank line,
\* the document saved, the Runner run once, processing(f) false and
\* executed(f) true.
C7_GenerateBodyIsB ==
    \A n \in Names :
        SoloGenerate(n) => (GenerateResult(n) /\ RegionBody(doc, n) = ret.code)

\* C7 (amended): the same, the body being b with the indentation of f's
\* declaration line in front of its first line.
C7_GenerateResult ==
    \A n \in Names :
        SoloGenerate(n)
           => /\ GenerateResult(n)
              /\ RegionBody(doc, n) = IndentFirst(ret.code, doc[DeclOf(doc, n)].ind)

\* a generate for an indented function has ended that way
C7_Witness ==
    \E n \in Names :
        /\ SoloGenerate(n) /\ doc[DeclOf(doc, n)].ind > 0
        /\ Len(ret.code) > 1

\* the range found for n after the edit spans START:n to END:n
FindsRegion(text, n) ==
    LET rg == getFunctionMarkerRange(text, n)
    IN  /\ rg # NoRange
        /\ text[rg.s].k = "start" /\ text[rg.s].tag = n
        /\ text[rg.e].k = "end" /\ text[rg.e].tag = n

\* the region edit is applied to the text in this step
RegionEdited == ret = NoRet /\ ret' # NoRet

\* no START:n marker stands above the line of the lens
NoStartAbove(text, n, lineNumber) ==
    \A i \in 1..lineNumber : ~(text[i].k = "start" /\ text[i].tag = n)

\* C8 (as claimed): for every text without a region for n, after the region
\* edit writes the region for n with body b, getFunctionMarkerRange finds a
\* span from the START:n marker to the END:n marker whose lines in between
\* are b.
C8_RoundTripIsB ==
    [][(RegionEdited /\ ~hasGeneratedCode(doc, ret'.fn))
          => /\ FindsRegion(doc', ret'.fn)
             /\ RegionBody(doc', ret'.fn) = ret'.code]_vars

\* C8 (amended): for every text without a region for n and with no START:n
\* marker above the line of the lens, the lines in between are b with the
\* indentation of the line at the lens's line number in front of the first
\* line.
C8_RoundTrip ==
    [][(RegionEdited /\ ~hasGeneratedCode(doc, ret'.fn)
        /\ NoStartAbove(doc, ret'.fn, ret'.line))
          => /\ FindsRegion(doc', ret'.fn)
             /\ RegionBody(doc', ret'.fn)
                  = IndentFirst(ret'.code,
                                DocumentLines(doc)[ret'.line + 1].ind)]_vars

\* a region with a body of two lines was inserted above an indented line of
\* a text without a region; a START marker of the same name without its END
\* marker stands below it
C8_Witness ==
    /\ ret.cmd = "run" /\ ~ret.had /\ Len(ret.code) > 1
    /\ FindsRegion(doc, ret.fn)
    /\ RegionBody(doc, ret.fn) = IndentFirst(ret.code, 1)
    /\ \E i \in 1..Len(doc) :
         /\ i > getFunctionMarkerRange(doc, ret.fn).e
         /\ doc[i].k = "start" /\ doc[i].tag = ret.fn

\* the document after a stop-all and then a run-existing for n, both
\* succeeding
StopThenRunExisting(text, n) ==
    LET c == CommentAll(text)
    IN  IF hasGeneratedCode(c, n) /\ isCodeCommented(c, n)
        THEN UncommentRange(c, getFunctionMarkerRange(c, n))
        ELSE c

\* a line up to the white space behind its comment prefixes
UpToPrefixSpace(l) == [l EXCEPT !.cm = [i \in DOMAIN l.cm |-> "//"]]

\* C9: commenting a freshly written region by stop-all and uncommenting it by
\* run-existing gives back every line of the region, up to the white space
\* behind the comment prefix.
C9_CommentUncommentIdentity ==
    [][\A r \in inv :
         GenEdit(r)
            => LET rg == getFunctionMarkerRange(doc', r.fn)
                   back == StopThenRunExisting(doc', r.fn)
               IN  \A i \in rg.s..rg.e :
                       UpToPrefixSpace(back[i]) = UpToPrefixSpace(doc'[i])]_vars

\* C10: right after the comment edit of a stop-all, a second stop-all finds
\* no range to rewrite and would leave every line as it is.
C10_CommentIdempotent ==
    [][\A r \in inv :
         StopEdit(r) => (StopRanges(doc') = {} /\ CommentAll(doc') = doc')]_vars

\* a stop-all has commented a region and its save is pending
C10_Witness ==
    \E r \in inv :
        /\ r.pc = "stopSave" /\ r.res = "ok" /\ r.edits = 1
        /\ \E n \in Names : isCodeCommented(doc, n)
        /\ \E i \in 1..Len(doc) : doc[i].k = "code" /\ doc[i].cm = <<"// ">>
                                    /\ doc[i].tag # NoName

\* a stop-all, invoked with nothing else in flight, has returned with no
\* command issued since, its Runner stop and its edit (if any) having
\* succeeded
SoloStop ==
    /\ ret.cmd = "stop" /\ ret.alone /\ ret.id = cmds /\ inv = {}
    /\ ~ret.failed /\ ret.res \in {"ok", "none"}

\* the lines of the region tagged n that the step rewrites
Rewritten(n) ==
    LET rg == getFunctionMarkerRange(doc, n)
    IN  IF rg = NoRange THEN {}
        ELSE {i \in rg.s..rg.e : i <= Len(doc') /\ doc'[i] # doc[i]}

\* C11: after a stop-all on its own whose Runner stop and edit succeed, every
\* region of the document is fully commented and the Runner's stop was
\* called once; its edit puts one comment prefix behind the indentation of
\* lines that are neither markers nor blank and leaves every other line as
\* it was; every function whose tagged region it rewrites is then not
\* executed and marked commented.
C11_StopAllResult ==
    /\ [](SoloStop =>
            /\ \A j \in 1..Len(getAllMarkerRanges(doc)) :
                   FullyCommented(doc, getAllMarkerRanges(doc)[j])
            /\ \A n \in Names :
                   hasGeneratedCode(doc, n) => isCodeCommented(doc, n)
            /\ ret.stops = 1)
    /\ [][\A r \in inv :
            (StopEdit(r) /\ inv = {r})
               => /\ Len(doc') = Len(doc)
                  /\ \A i \in 1..Len(doc) :
                       \/ doc'[i] = doc[i]
                       \/ /\ doc[i].k \notin {"start", "end", "blank"}
                          /\ doc[i].cm = NoPrefix
                          /\ doc'[i] = [doc[i] EXCEPT !.cm = <<"// ">>]
                  /\ \A n \in Names :
                       Rewritten(n) # {}
                          => /\ n \notin executedFunctions'
                             /\ commentedCode'[n] = "true"]_vars

\* a remove for a function that had a region, invoked with nothing else in
\* flight and no command issued since, returns in this step without having
\* failed
SoloRemoveReturns(r) ==
    /\ r \in inv /\ r.cmd = "remove" /\ r.had /\ r.alone /\ r.id = cmds
    /\ inv = {r} /\ inv' = {}
    /\ ret'.id = r.id /\ ~ret'.failed

\* C12: from a state in which a region for f exists, right after remove(f)
\* completes getFunctionMarkerRange finds no region for f and
\* hasBeenExecuted(f) is false.
C12_AfterRemove ==
    [][\A r \in inv :
         SoloRemoveReturns(r)
            => /\ ~hasGeneratedCode(doc', r.fn)
               /\ r.fn \notin executedFunctions']_vars

\* the Runner's run action of invocation r completes without throwing in
\* this step
RunnerCompletes(r) ==
    /\ r \in inv /\ r.cmd = "run" /\ r.pc = "run"
    /\ ret'.id = r.id /\ ~ret'.failed

\* C13: executed(f) becomes true only in a step in which the Runner's run
\* action of a runFunction invocation for f completes successfully; an
\* invocation that ends before the Runner is called does not set it.
C13_ExecutedOnlyByCompletedRun ==
    [][\A n \in Names :
         (n \in executedFunctions' /\ n \notin executedFunctions)
            => \E r \in inv : r.fn = n /\ RunnerCompletes(r)]_vars

\* C14: whenever no command is in flight, executed(f) implies that the
\* document holds a region tagged f whose body is not commented out.
C14_ExecutedImpliesActiveRegion ==
    inv = {} =>
        \A n \in Names :
            hasBeenExecuted(n)
               => (hasGeneratedCode(doc, n) /\ ~isCodeCommented(doc, n))

\* the ways the call of the language model fails
FailureModes == {"nokey", "throw", "empty", "unparsable"}

\* the comments the fallback calls carry in place of arguments
FailureAnnotations ==
    {"/* OpenAI API key not provided */", "/* Error parsing AI response */",
     "/* AI failed to generate params */"}

\* the invocation in flight r as it is after this step
After(r) == CHOOSE q \in inv' : q.id = r.id

\* C15: when the call of the language model throws during a generate for f,
\* the region written for f holds a fallback call of f that carries a
\* failure annotation; the command, if nothing else fails, returns with
\* processing(f) cleared and one notice shown.
C15_GeneratorThrows ==
    [][\A r \in inv :
         /\ (GenEdit(r) /\ After(r).gen = "throw")
               => \E l \in {RegionBody(doc', r.fn)[i] :
                              i \in 1..Len(RegionBody(doc', r.fn))} :
                      CallsFunction(l, r.fn) /\ l.txt \in FailureAnnotations
         /\ (RunReturns(r) /\ r.gen = "throw" /\ ~ret'.failed)
               => (ret'.notes = 1 /\ r.fn \notin processingFunctions')]_vars

\* C16: whichever way the call of the language model fails, the generate
\* goes on: the step applies the region edit, the body of the region then
\* holds a call of f, the catch is not entered, and once the edit and the
\* save are done the Runner's run action is called.
C16_DegradedCallProduced ==
    [][\A r \in inv :
         /\ (r.cmd = "run" /\ r.pc = "ai" /\ r.line < Len(doc)
             /\ r \notin inv' /\ ret'.id # r.id
             /\ After(r).gen \in FailureModes)
               => /\ After(r).pc = "genSave" /\ ~After(r).failed
                  /\ After(r).res = "ok"
                        => \E i \in 1..Len(RegionBody(doc', r.fn)) :
                               CallsFunction(RegionBody(doc', r.fn)[i], r.fn)
         /\ (r.cmd = "run" /\ r.pc = "ai" /\ r.line < Len(doc))
               => (r \in inv' \/ ret'.id # r.id)
         /\ (r.cmd = "run" /\ r.pc = "genSave" /\ r.gen \in FailureModes
             /\ r \notin inv' /\ ret'.id # r.id)
               => (After(r).pc = "run" /\ After(r).runs = r.runs + 1)]_vars

\* a generate whose call of the language model failed has written its
\* fallback call and called the Runner
C16_Witness ==
    \E r \in inv :
        /\ r.cmd = "run" /\ r.regen /\ r.pc = "run" /\ r.runs = 1
        /\ r.gen \in FailureModes /\ r.edits = 1
        /\ hasGeneratedCode(doc, r.fn)
        /\ \E i \in 1..Len(RegionBody(doc, r.fn)) :
               CallsFunction(RegionBody(doc, r.fn)[i], r.fn)

\* C17: a runFunction invocation that passed the guard and ends because an
\* awaited step threw has shown one notification over the whole invocation,
\* and processing(f) is false when it returns.
C17_OneNotificationOnFailure ==
    [][\A r \in inv :
         (RunReturns(r) /\ ret'.failed)
            => (ret'.notes = 1 /\ r.fn \notin processingFunctions')]_vars

\* C18: when the region edit of a generate for f throws or is reported as
\* not applied, the document is left as it was, and the command returns
\* having shown an error notice, with processing(f) cleared.
C18_EditFailure ==
    [][\A r \in inv :
         /\ (r.cmd = "run" /\ r.pc = "ai" /\ r \notin inv' /\ ret'.id # r.id
             /\ After(r).res \in {"rejected", "throw"})
               => doc' = doc
         /\ (RunReturns(r) /\ r.regen /\ r.res \in {"rejected", "throw"})
               => (ret'.failed /\ r.fn \notin processingFunctions')]_vars

\* C19: the lenses of a recognized function f depend on processing(f), on
\* whether the document holds a region for f and on executed(f) only: one
\* Running lens bound to run-without-regenerate while f is processing;
\* otherwise Generate, plus Run and Remove iff a region for f exists, plus
\* Stop iff in addition f is executed.
C19_LensActionSet ==
    \A n \in Names :
        DeclLinesOf(doc, n) # {} =>
            /\ provideCodeLenses(doc, n) =
                 {t \in {"running", "generate", "run", "remove", "stop"} :
                    \/ t = "running" /\ isProcessing(n)
                    \/ t = "generate" /\ ~isProcessing(n)
                    \/ t \in {"run", "remove"} /\ ~isProcessing(n)
                          /\ hasGeneratedCode(doc, n)
                    \/ t = "stop" /\ ~isProcessing(n)
                          /\ hasGeneratedCode(doc, n) /\ hasBeenExecuted(n)}
            /\ LensCommand("running") =
                 [command |-> "runFunction", regenerate |-> FALSE]
            /\ ~hasGeneratedCode(doc, n)
                  => provideCodeLenses(doc, n) \cap {"run", "remove", "stop"} = {}

\* one function shows the Running lens while another shows the Stop lens
C19_Witness ==
    /\ \E n \in Names : provideCodeLenses(doc, n) = {"running"}
    /\ \E n \in Names : "stop" \in provideCodeLenses(doc, n)

\* C20: every call of startProcessing, endProcessing, removeFromExecuted and
\* markCodeAsCommented fires the lens-change notification: the notifications
\* an invocation has fired are never fewer than its mutating calls.
C20_MutationsNotify ==
    \A r \in inv \cup {ret} : r.fired >= r.calls

\* invocation r is a run-existing whose uncomment edit was applied
UncommentPath(r) == r.cmd = "run" /\ ~r.regen /\ r.res = "ok"

\* C21: in a run-existing for f over a commented region the uncomment edit is
\* applied first, then the Runner's run action is called, then processing(f)
\* is cleared: processing(f) is true from the edit until the Runner's run
\* action has returned.
C21_RunExistingOrder ==
    \A r \in inv :
        UncommentPath(r) =>
            /\ r.pc \in {"uncSave", "run"}
            /\ r.edits = 1
            /\ r.pc = "uncSave" => (r.runs = 0 /\ isProcessing(r.fn))
            /\ r.pc = "run" => (r.runs = 1 /\ isProcessing(r.fn))

\* stopQuokka invocation s goes on behind the Runner's stop, which did not
\* throw, in this step
StopRuns(s) ==
    /\ s \in inv /\ s.pc = "stop"
    /\ ~\E q \in inv' : q.id = s.id /\ q.pc = "stop"
    /\ \A q \in inv' \cup {ret'} : q.id = s.id => ~q.failed

\* invocation r is a generate that awaits the Code Generator
AwaitsGenerator(r) == r \in inv /\ r.cmd = "run" /\ r.regen /\ r.pc = "ai"

\* C22: a stop-all that runs while a generate for f awaits the Code
\* Generator does not abort it: the stop-all calls the Runner's stop and no
\* run, and comments the regions the document holds at that moment, while
\* the generate stays in flight with processing(f) true; afterwards the
\* generate's edit writes a region for f that is not commented, and, no step
\* failing, it calls the Runner's run action and returns with processing(f)
\* cleared.
C22_NoCancellation ==
    [][\A r \in inv :
         /\ \A s \in inv :
              (AwaitsGenerator(r) /\ StopRuns(s))
                 => /\ \E q \in inv' : q.id = r.id /\ q.pc = "ai" /\ q.stopped
                                        /\ q.runs = r.runs /\ q.edits = r.edits
                    /\ r.fn \in processingFunctions'
                    /\ s.runs = 0 /\ s.stops = 1
                    /\ \A q \in inv' \cup {ret'} : q.id = s.id => q.runs = 0
                    /\ doc' \in {doc, CommentAll(doc)}
         /\ (GenEdit(r) /\ r.stopped)
               => /\ hasGeneratedCode(doc', r.fn)
                  /\ ~isCodeCommented(doc', r.fn)
         /\ (r.stopped /\ r.pc = "genSave" /\ r.res = "ok"
             /\ r \notin inv' /\ ret'.id # r.id)
               => (After(r).pc = "run" /\ After(r).runs = r.runs + 1)
         /\ (RunReturns(r) /\ r.stopped)
               => r.fn \notin processingFunctions']_vars

\* a generate has returned after a stop-all that ran while it awaited the
\* Code Generator: its region is not commented, the region the stop-all found
\* is
C22_Witness ==
    /\ ret.cmd = "run" /\ ret.regen /\ ret.stopped /\ ~ret.failed
    /\ ret.runs = 1 /\ ret.edits = 1
    /\ hasGeneratedCode(doc, ret.fn) /\ ~isCodeCommented(doc, ret.fn)
    /\ ~isProcessing(ret.fn)
    /\ \E n \in Names \ {ret.fn} : isCodeCommented(doc, n)

\* runFunction is invoked for function n in this step
RunInvoked(n) ==
    /\ cmds' = cmds + 1
    /\ \/ \E q \in inv' \ inv : q.id = cmds' /\ q.cmd = "run" /\ q.fn = n
       \/ ret' # ret /\ ret'.id = cmds' /\ ret'.cmd = "run" /\ ret'.fn = n

\* the runFunction invocation r was turned away by the guard (it never called
\* startProcessing)
Dropped(r) == r.cmd = "run" /\ r.res = "rejected" /\ r.calls = 0

\* the flags of the Region Store under the keys of the second document
OtherFlags(P, E) ==
    [n \in OtherNames |-> <<OtherKey(n) \in P, OtherKey(n) \in E>>]

\* C23: the guard of runFunction looks at the processing flag of its own key
\* only: an invocation for g passes, and sets processing(g), whenever
\* processing(g) is false, whatever the flags of the other functions of the
\* document and of the same-named function of another document are, so
\* generates for two functions can be in flight together; it changes no flag
\* under another key.  An invocation for g while processing(g) is true is
\* dropped: it returns at once, is never in flight afterwards, and has
\* called no edit and no Runner action.
C23_PerFunctionSerialization ==
    /\ [][\A n \in Names :
            RunInvoked(n) =>
               IF isProcessing(n)
               THEN /\ inv' = inv
                    /\ ret'.id = cmds' /\ Dropped(ret') /\ ret'.pc = "done"
                    /\ processingFunctions' = processingFunctions
               ELSE /\ \E q \in inv' \ inv :
                          /\ q.id = cmds' /\ q.fn = n /\ q.pc = "check"
                          /\ inv' = inv \cup {q}
                    /\ processingFunctions' = processingFunctions \cup {n}
                    /\ ret' = ret]_vars
    /\ [][OtherFlags(processingFunctions', executedFunctions')
            # OtherFlags(processingFunctions, executedFunctions)
          => /\ inv' = inv /\ ret' = ret
             /\ \A n \in Names : /\ isProcessing(n)' = isProcessing(n)
                                  /\ hasBeenExecuted(n)' = hasBeenExecuted(n)]_vars
    /\ [](Dropped(ret)
            => /\ \A q \in inv : q.id # ret.id
               /\ ret.runs = 0 /\ ret.edits = 0 /\ ret.stops = 0)
    /\ [](\A q \in inv : ~Dropped(q))

\* generates for f and fg are in flight, both awaiting the Code Generator,
\* while a runFunction for the function f of the second document is in
\* flight as well, and a third invocation, for one of the two, was rejected
C23_Witness ==
    /\ \E r \in inv, q \in inv :
         /\ r.fn # q.fn
         /\ AwaitsGenerator(r) /\ AwaitsGenerator(q)
         /\ isProcessing(r.fn) /\ isProcessing(q.fn)
    /\ OtherKey(F) \in processingFunctions
    /\ OtherKey(F) \notin executedFunctions
    /\ Dropped(ret) /\ ret.id = cmds

\* removeGeneratedCode invocation r, whose delete edit was applied, returns
\* in this step from its call of stopQuokka, no awaited step of the behaviour
\* having failed
RemoveCompletes(r) ==
    /\ r \in inv /\ r.cmd = "remove" /\ r \notin inv'
    /\ ret'.id = r.id /\ ret'.pc = "done" /\ ret'.stops = 1
    /\ fails' = 0

\* C24: when a remove for f that deleted a region completes, executed(f) and
\* processing(f) are both false, whatever else is in flight.
C24_RemoveClearsFlags ==
    [][\A r \in inv :
         RemoveCompletes(r)
            => /\ r.fn \notin executedFunctions'
               /\ r.fn \notin processingFunctions']_vars

\* removeGeneratedCode invocation r calls the Runner's stop in this step
StopInvokedBy(r) ==
    /\ r \in inv /\ r.cmd = "remove"
    /\ \E q \in inv' : q.id = r.id /\ q.stops = r.stops + 1

\* removeGeneratedCode invocation r, whose delete edit was applied, goes on
\* behind its save in this step
RemoveSaved(r) ==
    /\ r \in inv /\ r.cmd = "remove" /\ r.pc = "removeStop" /\ r.res = "ok"
    /\ r \notin inv'

\* a remove calls the Runner's stop at most once, and only behind its delete
\* edit and its call of removeFromExecuted
StopOnceAndLast ==
    /\ [](\A r \in inv \cup {ret} : r.cmd = "remove" => r.stops <= 1)
    /\ [][\A r \in inv :
            StopInvokedBy(r)
               => /\ r.pc = "removeStop" /\ r.stops = 0
                  /\ r.calls = 1
                  /\ r.res = "ok" => r.edits = 1]_vars

\* C25: every remove that deleted a region calls the Runner's stop once,
\* behind the delete edit and the call of removeFromExecuted.
C25_RemoveAlwaysStopsRunner ==
    /\ StopOnceAndLast
    /\ [][\A r \in inv : RemoveSaved(r) => StopInvokedBy(r)]_vars

\* C26: for every text, the spans of getAllMarkerRanges come in document
\* order and do not overlap (each starts behind the end of the one before);
\* every span starts at a START marker and ends at the first END marker
\* behind it.
C26_RangesOrdered ==
    LET all == getAllMarkerRanges(doc)
    IN  \A j \in 1..Len(all) :
            /\ doc[all[j].s].k = "start" /\ doc[all[j].e].k = "end"
            /\ all[j].s < all[j].e
            /\ \A i \in (all[j].s + 1)..(all[j].e - 1) : doc[i].k # "end"
            /\ j > 1 => all[j].s > all[j - 1].e

\* a text with two spans, the first with a second START marker inside
C26_Witness ==
    LET all == getAllMarkerRanges(doc)
    IN  /\ Len(all) = 2
        /\ \E i \in (all[1].s + 1)..(all[1].e - 1) : doc[i].k = "start"

\* the text holds a START marker tagged n and, behind it, an END marker
\* tagged n
HasPair(text, n) ==
    \E st \in 1..Len(text), e \in 1..Len(text) :
        /\ st < e
        /\ text[st].k = "start" /\ text[st].tag = n
        /\ text[e].k = "end" /\ text[e].tag = n

\* C27: for every text, getFunctionMarkerRange and hasGeneratedCode report a
\* region for n only if the text holds a START marker tagged n followed by an
\* END marker tagged n; a START:n marker without one yields no region,
\* whatever other markers follow it.
C27_MalformedYieldsNone ==
    \A n \in Names :
        /\ hasGeneratedCode(doc, n) => HasPair(doc, n)
        /\ getFunctionMarkerRange(doc, n) # NoRange => HasPair(doc, n)

\* C28: whenever no command is in flight, for every function whose commented
\* flag has been set, the flag is true exactly when the document holds a
\* region tagged with the function whose body is fully commented.
C28_CommentedFlagReconcilable ==
    inv = {} =>
        \A n \in Names :
            commentedCode[n] # "unset"
               => ((commentedCode[n] = "true")
                      <=> (hasGeneratedCode(doc, n) /\ isCodeCommented(doc, n)))

\* run-existing invocation r goes on behind the opening of the document in
\* this step, which did not throw
RunExistingDecides(r) ==
    /\ r \in inv /\ r.cmd = "run" /\ r.pc = "open" /\ ~r.regen
    /\ r \notin inv' /\ ret'.id # r.id

\* C29: the commentedCode map is written and never read.  Started with any
\* values in the map, a run-existing issues its uncomment edit exactly when
\* the text of the document holds a commented region for the function, a
\* stop-all rewrites exactly the ranges of the text that are not fully
\* commented (or, with no active editor, nothing), and the lenses of a function follow the processing flag, the
\* executed flag and the text; so the texts, lenses, Runner calls and notices
\* of two sessions that differ in the map only are the same.
C29_CommentedIsCacheOnly ==
    /\ [][\A r \in inv :
            /\ RunExistingDecides(r)
                  => /\ After(r).pc \in {"uncSave", "run"}
                     /\ (After(r).pc = "uncSave")
                           <=> (hasGeneratedCode(doc, r.fn)
                                /\ isCodeCommented(doc, r.fn))
                     /\ After(r).pc = "run"
                           => (doc' = doc /\ After(r).runs = r.runs + 1
                               /\ After(r).notes = r.notes + 1)
            /\ StopRuns(r)
                  => /\ (\E q \in inv' : q.id = r.id /\ q.pc = "stopSave")
                           => StopRanges(doc) # {}
                     /\ StopRanges(doc) # {}
                           => \/ \E q \in inv' : q.id = r.id /\ q.pc = "stopSave"
                              \/ ret'.id = r.id /\ ret'.notes = r.notes + 1
                     /\ StopEdit(r) => doc' = CommentAll(doc)
                     /\ ~StopEdit(r) => doc' = doc]_vars
    /\ []C19_LensActionSet

\* a run-existing has uncommented a region the map said was not commented
C29_Witness ==
    \E r \in inv :
        /\ r.cmd = "run" /\ ~r.regen /\ r.pc = "uncSave" /\ r.res = "ok"
        /\ commentedCode[r.fn] = "false"
        /\ ~isCodeCommented(doc, r.fn)

\* the lines of the region tagged n, markers included
RegionText(text, n) ==
    LET rg == getFunctionMarkerRange(text, n)
    IN  IF rg = NoRange THEN << >> ELSE SubSeq(text, rg.s, rg.e)

\* removeGeneratedCode invocation r, invoked with nothing else in flight and
\* no command issued since, takes a step
SoloRemoveSteps(r) ==
    /\ r \in inv /\ r.cmd = "remove" /\ r.alone /\ r.id = cmds
    /\ inv = {r} /\ r \notin inv' /\ cmds' = cmds

\* C30: a remove for f on its own changes the document by its delete edit
\* only, and leaves the text of the region of every other function, and the
\* executed and commented flags of every other function, as they were.
C30_RemoveFrame ==
    [][\A r \in inv :
         SoloRemoveSteps(r)
            => /\ r.pc # "open" => doc' = doc
               /\ \A n \in Names \ {r.fn} :
                    /\ RegionText(doc', n) = RegionText(doc, n)
                    /\ (n \in executedFunctions') <=> (n \in executedFunctions)
                    /\ commentedCode'[n] = commentedCode[n]]_vars

\* the delete edit of removeGeneratedCode invocation r is applied in this step
RemoveDeletes(r) ==
    /\ r \in inv /\ r.cmd = "remove" /\ r.pc = "open"
    /\ \E q \in inv' : q.id = r.id /\ q.pc = "removeSave" /\ q.res = "ok"

\* C31: the span a remove for f deletes starts at a START marker tagged f or
\* at an untagged one, and no START marker tagged with another function lies
\* in it: the region of another function is never deleted.
C31_RemoveDeletesOwnRegion ==
    [][\A r \in inv :
         RemoveDeletes(r)
            => LET rg == RemoveTarget(doc, r.fn)
               IN  \A i \in rg.s..rg.e :
                       doc[i].k = "start" => doc[i].tag \in {r.fn, NoName}]_vars

\* the generate r replaces an existing region of its function in this step
Regenerates(r) == GenEdit(r) /\ hasGeneratedCode(doc, r.fn)

\* the empty lines right behind line i of the text
BlankRun(text, i) ==
    Cardinality({j \in (i + 1)..Len(text) :
                   \A k \in (i + 1)..j : IsBlank(text[k])})

\* C32: a generate that replaces the region of f by the text that is already
\* its body leaves the document as it is; whatever the text, a generate that
\* replaces the region of f leaves the indentation of the START marker and
\* the number of empty lines behind the END marker as they were.
C32_RegenerateIdempotent ==
    [][\A r \in inv :
         Regenerates(r)
            => LET old == getFunctionMarkerRange(doc, r.fn)
                   new == getFunctionMarkerRange(doc', r.fn)
               IN  /\ RegionBody(doc, r.fn)
                         = IndentFirst(GenCode(r), doc[r.line + 1].ind)
                         => doc' = doc
                   /\ new # NoRange
                   /\ doc'[new.s].ind = doc[old.s].ind
                   /\ BlankRun(doc', new.e) = BlankRun(doc, old.e)]_vars

\* invocation r is a generate none of whose steps has failed
GenerateRuns(r) ==
    r.cmd = "run" /\ r.regen /\ ~r.failed /\ r.res \in {"none", "ok"}

\* invocation r goes from one await to the next in this step
Advances(r) == r \in inv /\ \E q \in inv' : q.id = r.id /\ q.pc # r.pc

\* C33: a generate that passed the guard and none of whose steps fails has
\* called startProcessing when it is in flight; it obtains the Code
\* Generator's text, then applies the region edit, then saves, then calls the
\* Runner's run action, and calls endProcessing, which clears processing(f)
\* and sets executed(f), only when the Runner has returned: the Runner is not
\* called before the edit is applied and the document saved, and no step of
\* the generate before its return touches the executed or the processing set.
C33_GenerateOrder ==
    /\ [](\A r \in inv :
            GenerateRuns(r)
               => /\ r.calls = 1
                  /\ r.pc \in {"check", "notInstalled", "open", "ai",
                               "genSave", "run"}
                  /\ r.pc \in {"check", "notInstalled", "open", "ai"}
                        => (r.gen = "none" /\ r.edits = 0 /\ r.runs = 0)
                  /\ r.pc = "genSave"
                        => (r.gen # "none" /\ r.edits = 1 /\ r.runs = 0)
                  /\ r.pc = "run"
                        => (r.gen # "none" /\ r.edits = 1 /\ r.runs = 1))
    /\ [][\A r \in inv :
            /\ (GenerateRuns(r) /\ Advances(r))
                  => /\ executedFunctions' = executedFunctions
                     /\ processingFunctions' = processingFunctions
                     /\ After(r).pc = "run"
                           => (r.pc = "genSave" /\ doc' = doc /\ ~dirty')
            /\ (RunReturns(r) /\ GenerateRuns(r) /\ r.res = "ok"
                /\ ~ret'.failed)
                  => /\ r.pc = "run" /\ ret'.runs = 1 /\ ret'.edits = 1
                     /\ ret'.calls = 2
                     /\ r.fn \notin processingFunctions'
                     /\ r.fn \in executedFunctions']_vars

\* a generate has gone through all its steps and returned
C33_Witness ==
    /\ ret.cmd = "run" /\ ret.regen /\ ~ret.failed /\ ret.res = "ok"
    /\ ret.gen = "code" /\ ret.edits = 1 /\ ret.runs = 1 /\ ret.calls = 2
    /\ ret.notes = 1
    /\ hasBeenExecuted(ret.fn) /\ ~isProcessing(ret.fn) /\ ~dirty

\* the Runner's stop called by invocation r throws in this step
RunnerStopFails(r) ==
    r \in inv /\ r.pc = "stop" /\ ret'.id = r.id /\ ret'.failed

\* invocation r of stopQuokka edits the document or calls a mutating method
\* of the Region Store in this step
StopChanges(r) ==
    /\ r \in inv /\ r.pc \in {"stop", "stopSave", "fold"}
    /\ \E q \in inv' \cup {ret'} :
         q.id = r.id /\ (q.edits > r.edits \/ q.calls > r.calls)

\* C34: stop-all calls the Runner's stop before it edits the document or
\* touches the Region Store: while that call is pending a stopQuokka command
\* has made no edit and no store call, and its edit and its store calls come
\* in the step in which the Runner's stop has returned; when the Runner's stop
\* throws, the document, the processing and executed sets and the commented
\* map stay as they are, every other invocation stays as it is, and the
\* command returns having shown one error notice.
C34_StopRunnerFirst ==
    /\ [](\A r \in inv :
            (r.cmd = "stop" /\ r.pc = "stop")
               => (r.stops = 1 /\ r.edits = 0 /\ r.calls = 0 /\ r.notes = 0))
    /\ [][\A r \in inv :
            /\ StopChanges(r)
                  => (r.pc = "stop" /\ r.stops = 1 /\ ~RunnerStopFails(r))
            /\ RunnerStopFails(r)
                  => /\ doc' = doc /\ dirty' = dirty
                     /\ processingFunctions' = processingFunctions
                     /\ executedFunctions' = executedFunctions
                     /\ commentedCode' = commentedCode
                     /\ inv' = inv \ {r}
                     /\ ret'.notes = r.notes + 1
                     /\ ret'.edits = r.edits /\ ret'.calls = r.calls]_vars

\* the Runner's stop of a stop-all has thrown while the document held a
\* region that was not commented: the region and the executed flag of its
\* function are as they were
C34_Witness ==
    /\ ret.cmd = "stop" /\ ret.failed /\ ret.stops = 1
    /\ ret.notes = 1 /\ ret.edits = 0 /\ ret.calls = 0
    /\ StopRanges(doc) # {}
    /\ \E n \in Names : hasActiveExecution(doc, n) /\ ~isCodeCommented(doc, n)

\* the text holds no region tagged n and no region with a call of n in it
NoRegionFor(text, n) ==
    /\ ~HasPair(text, n)
    /\ \A j \in 1..Len(getAllMarkerRanges(text)) :
           \A i \in getAllMarkerRanges(text)[j].s..getAllMarkerRanges(text)[j].e :
               ~CallsFunction(text[i], n)

\* removeGeneratedCode invocation r, the document opened, looks for its range
\* in this step
RemoveLooksUp(r) ==
    /\ r \in inv /\ r.cmd = "remove" /\ r.pc = "open" /\ r \notin inv'
    /\ ~(ret'.id = r.id /\ ret'.failed)

\* C35: a remove for f that finds the document without a region tagged f and
\* without a region that holds a call of f returns at once: the document, the
\* processing and executed sets and the commented map are as they were, no
\* edit was issued and the Runner's stop was not called, and the one notice
\* it has shown is the informational one.
C35_RemoveAbsentIsNoOp ==
    [][\A r \in inv :
         (RemoveLooksUp(r) /\ NoRegionFor(doc, r.fn))
            => /\ ret'.id = r.id /\ ret'.pc = "done"
               /\ inv' = inv \ {r}
               /\ ret'.notes = 1 /\ ~ret'.failed
               /\ ret'.stops = 0 /\ ret'.edits = 0 /\ ret'.calls = 0
               /\ doc' = doc /\ dirty' = dirty
               /\ processingFunctions' = processingFunctions
               /\ executedFunctions' = executedFunctions
               /\ commentedCode' = commentedCode]_vars

\* a remove has returned that way: it was invoked while the region of its
\* function was there, and another remove deleted the region first
C35_Witness ==
    /\ ret.cmd = "remove" /\ ret.had /\ ~ret.failed
    /\ ret.notes = 1 /\ ret.stops = 0 /\ ret.edits = 0 /\ ret.calls = 0
    /\ NoRegionFor(doc, ret.fn)

\* invocation r is a run-existing that went straight to the Runner
RunsStraight(r) == r.cmd = "run" /\ ~r.regen /\ r.pc = "run" /\ r.res = "none"

\* C36: a run-existing for f that finds the region of f not commented issues
\* no edit: the step that decides it leaves the document and the commented
\* map as they are and calls the Runner's run action; while the Runner runs
\* the invocation has called it once and edited nothing; the step in which it
\* returns leaves the document and the commented map as they are, with
\* processing(f) false and executed(f) true.
C36_RunExistingActive ==
    /\ [](\A r \in inv : RunsStraight(r) => (r.runs = 1 /\ r.edits = 0))
    /\ [][\A r \in inv :
            /\ (RunExistingDecides(r) /\ hasGeneratedCode(doc, r.fn)
                /\ ~isCodeCommented(doc, r.fn))
                  => /\ RunsStraight(After(r))
                     /\ doc' = doc /\ dirty' = dirty
                     /\ commentedCode' = commentedCode
            /\ (RunReturns(r) /\ RunsStraight(r))
                  => /\ doc' = doc /\ dirty' = dirty
                     /\ commentedCode' = commentedCode
                     /\ ret'.runs = 1 /\ ret'.edits = 0
                     /\ r.fn \notin processingFunctions'
                     /\ r.fn \in executedFunctions']_vars

\* a run-existing over a region that is not commented has returned: one
\* Runner call, no edit
C36_Witness ==
    /\ ret.cmd = "run" /\ ~ret.regen /\ ret.had /\ ret.res = "none"
    /\ ~ret.failed /\ ret.runs = 1 /\ ret.edits = 0 /\ ret.notes = 1
    /\ hasGeneratedCode(doc, ret.fn) /\ ~isCodeCommented(doc, ret.fn)
    /\ hasBeenExecuted(ret.fn) /\ ~isProcessing(ret.fn)

\* runFunction invocation r stands behind the check that found the Runner
\* extension missing
NotInstalledPath(r) == r.cmd = "run" /\ r.pc = "notInstalled"

\* C37: when the Runner extension is not installed, a runFunction invocation
\* that passed the guard goes to the error message and from there to its
\* return: it has issued no edit and called neither the Code Generator nor
\* the Runner, the step in which it returns leaves the document as it is
\* and processing(f) false, and the error message is the one notice it has
\* shown.
C37_RunnerNotInstalled ==
    /\ [](\A r \in inv :
            NotInstalledPath(r)
               => (r.notes = 1 /\ r.edits = 0 /\ r.gen = "none"
                   /\ r.runs = 0 /\ r.stops = 0))
    /\ [][\A r \in inv :
            /\ (r.cmd = "run" /\ r.pc = "check" /\ ~quokkaInstalled
                /\ Advances(r))
                  => NotInstalledPath(After(r))
            /\ (RunReturns(r) /\ NotInstalledPath(r))
                  => /\ doc' = doc /\ dirty' = dirty
                     /\ ret'.edits = 0 /\ ret'.gen = "none"
                     /\ ret'.runs = 0 /\ ret'.stops = 0
                     /\ ret'.notes = 1
                     /\ r.fn \notin processingFunctions']_vars

====
